---- MODULE Spec2Model ----
(***************************************************************************)
(* A model of the Traffic Intelligence API: the JWT helpers and the        *)
(* in-memory user store of auth.py, and the /register, /login,             *)
(* /predict/image and /predict/video handlers of main.py.                  *)
(*                                                                         *)
(* Time is counted in ticks of 1/TicksPerSecond s, so that the truncation  *)
(* of the expiry to whole seconds made by jwt.encode is visible.           *)
(***************************************************************************)
EXTENDS Integers, Sequences, FiniteSets

VARIABLES
    now,            \* datetime.now(timezone.utc), in ticks
    issued,         \* the last create_access_token call: its arguments and result
    verified,       \* the last verify_token call: its argument, time and result
    fake_users_db,  \* auth.fake_users_db: username -> password (NoUser if absent)
    reg,            \* per caller: the /register request in flight in a worker thread
    last,           \* the last /register or /login response sent
    successes,      \* history: username -> number of /register calls answered 200
    firstPw,        \* history: username -> password of its first successful /register
    overlap,        \* history: username -> two /register calls for it were in flight
                    \*          at the same time
    req,            \* the /predict request being handled
    input_exists,   \* the temporary input file input_path is on disk
    output_exists,  \* the temporary output file output_path is on disk
    cap,            \* the cv2.VideoCapture: "none", "open", "closed" or "released"
    out,            \* the cv2.VideoWriter:  "none", "open", "closed" or "released"
    frame_count,    \* predict_video's frame_count
    written,        \* the frames written to the VideoWriter, in order (input positions)
    detect_calls    \* the number of model.predict calls made for the request

tokenVars == <<issued, verified>>
authVars  == <<fake_users_db, reg, last, successes, firstPw, overlap>>
videoVars == <<req, input_exists, output_exists, cap, out, frame_count, written,
               detect_calls>>
vars == <<now, tokenVars, authVars, videoVars>>

----------------------------------------------------------------------------
(* Bounds of the model *)

TicksPerSecond == 2     \* clock resolution
SubTicks == 2           \* single ticks explored after each quarter-hour mark
MaxQuarters == 3        \* the clock runs up to MaxQuarters quarter-hours
MaxOver == 2            \* the longest video has FRAME_LIMIT + MaxOver frames

(* Program constants *)

ACCESS_TOKEN_EXPIRE_MINUTES == 30
DEFAULT_EXPIRE_MINUTES == 15
FRAME_LIMIT == 300
CONGESTED_ABOVE == 15

SECRET_KEY == "super_secret_diabolical_key"
OtherKey == "some_other_key"            \* any key that is not SECRET_KEY

Minutes(m) == m * 60 * TicksPerSecond
Quarter == Minutes(DEFAULT_EXPIRE_MINUTES)
MaxNow == MaxQuarters * Quarter + SubTicks

Usernames == {"admin", "alice", ""}
Passwords == {"secretpassword", "pw1"}
Callers == {1, 2}
NoUser == "<absent>"
NoSub == "<no sub claim>"

Min(a, b) == IF a <= b THEN a ELSE b

----------------------------------------------------------------------------
(* TokenCodec: auth.py, create_access_token and verify_token *)

\* The optional expires_delta argument: None, or a timedelta in ticks.
NoDelta == [given |-> FALSE, ticks |-> 0]
Delta(d) == [given |-> TRUE, ticks |-> d]

\* bool(expires_delta): None is falsy, and so is timedelta(0).
Truthy(expires_delta) == expires_delta.given /\ expires_delta.ticks # 0

\* jwt.encode stores a datetime exp as whole seconds since the epoch.
ToEpochSeconds(t) == t \div TicksPerSecond

\* A token is modelled by its payload and the key that signed it.
Token(sub, exp, key) == [sub |-> sub, exp |-> exp, key |-> key]
NullToken == Token(NoSub, 0, "")

ExpireOf(expires_delta, t) ==
    IF Truthy(expires_delta) THEN t + expires_delta.ticks
    ELSE t + Minutes(DEFAULT_EXPIRE_MINUTES)

\* data is the claims dict, of which only 'sub' (or its absence) matters.
create_access_token(data, expires_delta, t) ==
    Token(data, ToEpochSeconds(ExpireOf(expires_delta, t)), SECRET_KEY)

\* jwt.decode(token, SECRET_KEY, algorithms=[ALGORITHM]) at time t: the signature
\* is checked first, then exp against the current time (exp <= now is expired).
JwtDecode(token, t) ==
    IF token.key # SECRET_KEY THEN "PyJWTError"
    ELSE IF token.exp * TicksPerSecond <= t THEN "ExpiredSignatureError"
    ELSE "payload"

Http(status, detail) == [status |-> status, detail |-> detail, username |-> NoSub]
Principal(username) == [status |-> 200, detail |-> "", username |-> username]

verify_token_NoExpiry(token, t) ==
    IF token.key # SECRET_KEY THEN Http(401, "Invalid token")
    ELSE IF token.sub = NoSub THEN Http(401, "Token is missing username")
    ELSE Principal(token.sub)

verify_token(token, t) ==
    CASE JwtDecode(token, t) = "ExpiredSignatureError" ->
            Http(401, "Token has expired! Login again.")
      [] JwtDecode(token, t) = "PyJWTError" -> Http(401, "Invalid token")
      [] OTHER ->
            IF token.sub = NoSub THEN Http(401, "Token is missing username")
            ELSE Principal(token.sub)

----------------------------------------------------------------------------
(* The clock.  It is read by create_access_token and verify_token only, so  *)
(* it is advanced between the steps of /register and /login and between     *)
(* /predict requests.                                                       *)

Tick ==
    /\ req.pc = "idle"
    /\ \E d \in {1, Quarter} :
          /\ now + d <= MaxNow
          /\ d = 1 => (now % Quarter) < SubTicks
          /\ now' = now + d
    /\ UNCHANGED <<tokenVars, authVars, videoVars>>

----------------------------------------------------------------------------
(* Direct use of the token helpers *)

NoCall == [data |-> NoSub, expires_delta |-> NoDelta, at |-> 0, token |-> NullToken,
           made |-> FALSE]
NoVerify == [token |-> NullToken, at |-> 0, result |-> Http(0, ""), made |-> FALSE]

Deltas == {NoDelta, Delta(0), Delta(1), Delta(TicksPerSecond),
           Delta(Minutes(ACCESS_TOKEN_EXPIRE_MINUTES))}

\* create_access_token(data, expires_delta) called at the current time.
Issue(data, expires_delta) ==
    /\ issued' = [data |-> data, expires_delta |-> expires_delta, at |-> now,
                  token |-> create_access_token(data, expires_delta, now),
                  made |-> TRUE]
    /\ verified' = NoVerify
    /\ UNCHANGED <<now, authVars, videoVars>>

\* verify_token on the issued token, as issued or with its signature not matching
\* SECRET_KEY (a tampered token, or one signed with another key).
Verify(intact) ==
    /\ issued.made
    /\ LET token == IF intact THEN issued.token
                    ELSE [issued.token EXCEPT !.key = OtherKey]
       IN verified' = [token |-> token, at |-> now,
                       result |-> verify_token(token, now), made |-> TRUE]
    /\ UNCHANGED <<now, issued, authVars, videoVars>>

----------------------------------------------------------------------------
(* CredentialStore and the auth endpoints: auth.py, register_new_user and   *)
(* authenticate_user; main.py, register and login.                          *)
(*                                                                          *)
(* /register and /login are plain def endpoints, which FastAPI runs in      *)
(* worker threads: between the membership test and the insert of            *)
(* register_new_user, and between the insert and the response, another      *)
(* request may run.                                                         *)

Idle == [pc |-> "idle", username |-> NoUser, password |-> ""]
NoResponse == [caller |-> 0, op |-> "none", username |-> NoUser, password |-> "",
               status |-> 0, subject |-> NoSub, follows |-> FALSE]

\* user.username in fake_users_db
UsernameTaken_Never(db, username) == FALSE

UsernameTaken(db, username) == db[username] # NoUser

\* authenticate_user: the record, or None (FALSE) when the user is absent or the
\* password differs.
authenticate_user(db, username, password) ==
    IF db[username] = NoUser THEN FALSE
    ELSE IF db[username] # password THEN FALSE
    ELSE TRUE

\* What verify_token yields on a token the moment it is returned.
SubjectOf(token, t) == verify_token(token, t).username

SessionToken(username, t) ==
    create_access_token(username, Delta(Minutes(ACCESS_TOKEN_EXPIRE_MINUTES)), t)

\* register, up to the membership test of register_new_user.
RegisterCall(c, username, password) ==
    /\ reg[c].pc = "idle"
    /\ IF UsernameTaken(fake_users_db, username)
       THEN /\ last' = [caller |-> c, op |-> "register", username |-> username,
                        password |-> password, status |-> 400, subject |-> NoSub,
                        follows |-> FALSE]
            /\ UNCHANGED <<reg, overlap>>
       ELSE /\ reg' = [reg EXCEPT ![c] = [pc |-> "insert", username |-> username,
                                          password |-> password]]
            /\ overlap' = [overlap EXCEPT ![username] =
                               @ \/ \E d \in Callers \ {c} :
                                       /\ reg[d].pc # "idle"
                                       /\ reg[d].username = username]
            /\ UNCHANGED last
    /\ UNCHANGED <<now, tokenVars, fake_users_db, successes, firstPw, videoVars>>

\* register_new_user, the insert.
RegisterInsert(c) ==
    /\ reg[c].pc = "insert"
    /\ fake_users_db' = [fake_users_db EXCEPT ![reg[c].username] = reg[c].password]
    /\ reg' = [reg EXCEPT ![c].pc = "respond"]
    /\ UNCHANGED <<now, tokenVars, last, successes, firstPw, overlap, videoVars>>

\* register, after register_new_user returned: the token and the response.
RegisterRespond(c) ==
    /\ reg[c].pc = "respond"
    /\ LET u == reg[c].username
       IN /\ last' = [caller |-> c, op |-> "register", username |-> u,
                      password |-> reg[c].password, status |-> 200,
                      subject |-> SubjectOf(SessionToken(u, now), now),
                      follows |-> FALSE]
          /\ successes' = [successes EXCEPT ![u] = @ + 1]
          /\ firstPw' = IF firstPw[u] = NoUser
                        THEN [firstPw EXCEPT ![u] = reg[c].password]
                        ELSE firstPw
    /\ reg' = [reg EXCEPT ![c] = Idle]
    /\ UNCHANGED <<now, tokenVars, fake_users_db, overlap, videoVars>>

\* login.  follows records that this is the caller's next request after its own
\* successful register with the same credentials, with no response in between.
Login(c, username, password) ==
    /\ reg[c].pc = "idle"
    /\ LET follows == /\ last.op = "register"
                      /\ last.caller = c
                      /\ last.status = 200
                      /\ last.username = username
                      /\ last.password = password
       IN IF authenticate_user(fake_users_db, username, password)
          THEN last' = [caller |-> c, op |-> "login", username |-> username,
                        password |-> password, status |-> 200,
                        subject |-> SubjectOf(SessionToken(username, now), now),
                        follows |-> follows]
          ELSE last' = [caller |-> c, op |-> "login", username |-> username,
                        password |-> password, status |-> 401, subject |-> NoSub,
                        follows |-> follows]
    /\ UNCHANGED <<now, tokenVars, fake_users_db, reg, successes, firstPw, overlap,
                   videoVars>>

----------------------------------------------------------------------------
(* The prediction endpoints: main.py, predict_image and predict_video *)

NoHeader == [kind |-> "none", token |-> NullToken]
BadScheme == [kind |-> "malformed", token |-> NullToken]
Bearer(token) == [kind |-> "bearer", token |-> token]

HeaderTokens ==
    {Token(sub, exp, key) :
        sub \in {"admin", NoSub},
        exp \in {1, ToEpochSeconds(Minutes(ACCESS_TOKEN_EXPIRE_MINUTES))},
        key \in {SECRET_KEY, OtherKey}}
Headers == {NoHeader, BadScheme} \cup {Bearer(t) : t \in HeaderTokens}

\* conf, in hundredths
Confs == {-5, 25, 150}
NoContentType == "<none>"
ContentTypes == {"video/mp4", "image/jpeg", NoContentType}
Endpoints == {"image", "video"}
FrameCounts == {0, 1, 2} \cup {FRAME_LIMIT + k : k \in (-1)..MaxOver}
\* An upload: whether cv2.VideoCapture can open it, and the frames it then yields.
Uploads == {[readable |-> FALSE, nframes |-> 0]} \cup
           {[readable |-> TRUE, nframes |-> n] : n \in FrameCounts}
Totals == {0, CONGESTED_ABOVE, CONGESTED_ABOVE + 1}

NoOutcome == Http(0, "")
NoRequest == [pc |-> "idle", endpoint |-> "none", header |-> NoHeader, conf |-> 0,
              content_type |-> NoContentType, readable |-> FALSE, nframes |-> 0,
              outcome |-> NoOutcome]

VideoInit ==
    /\ req = NoRequest
    /\ input_exists = FALSE
    /\ output_exists = FALSE
    /\ cap = "none"
    /\ out = "none"
    /\ frame_count = 0
    /\ written = <<>>
    /\ detect_calls = 0

\* Query(0.25, ge=0.0, le=1.0) of predict_image
ConfInRange(conf) == conf >= 0 /\ conf <= 100

\* Query(0.25) of predict_video: any float is taken.
VideoConfAccepted(conf) == TRUE

\* "video" in file.content_type
IsVideoType(content_type) == content_type = "video/mp4"

\* "Congested" if total > 15 else "Clear"
StatusOf(total) == IF total > CONGESTED_ABOVE THEN "Congested" ELSE "Clear"

\* Depends(verify_token) -> Security(HTTPBearer()): a missing header or another
\* scheme is refused by HTTPBearer, a bearer credential goes to verify_token.
Authorize(header, t) ==
    IF header.kind # "bearer" THEN Http(401, "Not authenticated")
    ELSE verify_token(header.token, t)

Finish(outcome) == req' = [req EXCEPT !.pc = "done", !.outcome = outcome]

Request(endpoint, header, conf, content_type, upload) ==
    /\ req.pc = "idle"
    /\ req' = [pc |-> "deps", endpoint |-> endpoint, header |-> header, conf |-> conf,
               content_type |-> content_type, readable |-> upload.readable,
               nframes |-> upload.nframes, outcome |-> NoOutcome]
    /\ UNCHANGED <<now, tokenVars, authVars, input_exists, output_exists, cap, out,
                   frame_count, written, detect_calls>>

\* What FastAPI does before it calls the handler: the verify_token dependency, then
\* the validation of the declared parameters.
SolveDependencies ==
    /\ req.pc = "deps"
    /\ LET auth == Authorize(req.header, now)
           accepted == IF req.endpoint = "image" THEN ConfInRange(req.conf)
                       ELSE VideoConfAccepted(req.conf)
       IN IF auth.status # 200 THEN Finish(auth)
          ELSE IF ~accepted THEN Finish(Http(422, "conf out of range"))
          ELSE req' = [req EXCEPT !.pc = "handler"]
    /\ UNCHANGED <<now, tokenVars, authVars, input_exists, output_exists, cap, out,
                   frame_count, written, detect_calls>>

\* predict_image: everything runs inside try/except Exception -> 500.
ImageHandler ==
    /\ req.pc = "handler"
    /\ req.endpoint = "image"
    /\ \/ \E total \in Totals :
             /\ detect_calls' = detect_calls + 1
             /\ Finish(Http(200, StatusOf(total)))
       \/ \E called \in {0, 1} :
             /\ detect_calls' = detect_calls + called
             /\ Finish(Http(500, "exception"))
    /\ UNCHANGED <<now, tokenVars, authVars, input_exists, output_exists, cap, out,
                   frame_count, written>>

\* predict_video up to the try: the content type test and the temporary input file
\* (NamedTemporaryFile(delete=False) and copyfileobj, outside any try).
VideoReceive ==
    /\ req.pc = "handler"
    /\ req.endpoint = "video"
    /\ IF req.content_type = NoContentType
       THEN Finish(Http(500, "TypeError")) /\ UNCHANGED input_exists
       ELSE IF ~IsVideoType(req.content_type)
       THEN Finish(Http(400, "File must be a video.")) /\ UNCHANGED input_exists
       ELSE /\ input_exists' = TRUE
            /\ \/ req' = [req EXCEPT !.pc = "open"]
               \/ Finish(Http(500, "copy failed"))
    /\ UNCHANGED <<now, tokenVars, authVars, output_exists, cap, out, frame_count,
                   written, detect_calls>>

\* cv2.VideoCapture and cv2.VideoWriter: neither raises on an input that cannot be
\* decoded; the capture is then not opened, and the writer, given 0x0 frames, is
\* not opened either and creates no file.
VideoOpen ==
    /\ req.pc = "open"
    /\ cap' = IF req.readable THEN "open" ELSE "closed"
    /\ out' = IF req.readable THEN "open" ELSE "closed"
    /\ output_exists' = req.readable
    /\ frame_count' = 0
    /\ req' = [req EXCEPT !.pc = "loop"]
    /\ UNCHANGED <<now, tokenVars, authVars, input_exists, written, detect_calls>>

\* The test that ends the loop after a frame was written and counted.
LimitReached(count) == count > FRAME_LIMIT

\* One pass of the while loop.  The capture has delivered frame_count frames so
\* far, so the frame it reads next is frame_count + 1.
VideoFrame ==
    /\ req.pc = "loop"
    /\ IF cap # "open" \/ frame_count = req.nframes
       THEN /\ req' = [req EXCEPT !.pc = "release"]
            /\ UNCHANGED <<written, frame_count, detect_calls>>
       ELSE /\ detect_calls' = detect_calls + 1
            /\ written' = Append(written, frame_count + 1)
            /\ frame_count' = frame_count + 1
            /\ req' = [req EXCEPT !.pc = IF LimitReached(frame_count + 1)
                                         THEN "release" ELSE "loop"]
    /\ UNCHANGED <<now, tokenVars, authVars, input_exists, output_exists, cap, out>>

\* An exception inside the try (opening, cap.read, model.predict, plot, out.write):
\* except raises HTTPException(500) and finally removes the input file.  Nothing
\* else is undone: cap.release() and out.release() are skipped and output_path
\* stays on disk.
VideoRaise ==
    /\ req.pc = "open" \/ (req.pc = "loop" /\ cap = "open")
    /\ \E called \in {0, 1} :
          /\ called = 1 => (req.pc = "loop" /\ frame_count < req.nframes)
          /\ detect_calls' = detect_calls + called
    /\ input_exists' = FALSE
    /\ Finish(Http(500, "exception"))
    /\ UNCHANGED <<now, tokenVars, authVars, output_exists, cap, out, frame_count,
                   written>>

\* After the loop: cap.release(), out.release(), return FileResponse(output_path);
\* finally removes the input file.
VideoReturn ==
    /\ req.pc = "release"
    /\ cap' = "released"
    /\ out' = "released"
    /\ input_exists' = FALSE
    /\ Finish(Http(200, "FileResponse"))
    /\ UNCHANGED <<now, tokenVars, authVars, output_exists, frame_count, written,
                   detect_calls>>

\* The response is sent; the next request starts from fresh locals and its own
\* temporary paths.
Respond ==
    /\ req.pc = "done"
    /\ req' = NoRequest
    /\ input_exists' = FALSE
    /\ output_exists' = FALSE
    /\ cap' = "none"
    /\ out' = "none"
    /\ frame_count' = 0
    /\ written' = <<>>
    /\ detect_calls' = 0
    /\ UNCHANGED <<now, tokenVars, authVars>>

----------------------------------------------------------------------------
(* Specifications *)

TokenInit == issued = NoCall /\ verified = NoVerify

AuthInit ==
    /\ fake_users_db = [u \in Usernames |->
                           IF u = "admin" THEN "secretpassword" ELSE NoUser]
    /\ reg = [c \in Callers |-> Idle]
    /\ last = NoResponse
    /\ successes = [u \in Usernames |-> 0]
    /\ firstPw = [u \in Usernames |-> NoUser]
    /\ overlap = [u \in Usernames |-> FALSE]

Init == now = 0 /\ TokenInit /\ AuthInit /\ VideoInit

NextToken ==
    \/ Tick
    \/ \E data \in Usernames \cup {NoSub}, d \in Deltas : Issue(data, d)
    \/ \E intact \in BOOLEAN : Verify(intact)

NextAuth ==
    \/ Tick
    \/ \E c \in Callers, u \in Usernames, p \in Passwords : RegisterCall(c, u, p)
    \/ \E c \in Callers : RegisterInsert(c)
    \/ \E c \in Callers : RegisterRespond(c)
    \/ \E c \in Callers, u \in Usernames, p \in Passwords : Login(c, u, p)

NextPredict ==
    \/ Tick
    \/ \E e \in Endpoints, h \in Headers, c \in Confs, ct \in ContentTypes,
          v \in Uploads : Request(e, h, c, ct, v)
    \/ SolveDependencies
    \/ ImageHandler
    \/ VideoReceive
    \/ VideoOpen
    \/ VideoFrame
    \/ VideoRaise
    \/ VideoReturn
    \/ Respond

Next == NextToken \/ NextAuth \/ NextPredict

SpecToken == Init /\ [][NextToken]_vars
SpecAuth == Init /\ [][NextAuth]_vars
SpecPredict == Init /\ [][NextPredict]_vars
Spec == Init /\ [][Next]_vars

----------------------------------------------------------------------------
(* Properties *)

Expired(token, t) == token.exp * TicksPerSecond <= t
FirstFrames(n) == [i \in 1..n |-> i]
NoSideEffect ==
    /\ ~input_exists
    /\ ~output_exists
    /\ cap = "none"
    /\ out = "none"
    /\ written = <<>>
    /\ detect_calls = 0

\* C1: a video request that succeeds has written exactly the first
\* min(N, FRAME_LIMIT) frames of its N-frame input, in input order.
C1_CappedFramesInOrder ==
    (req.pc = "done" /\ req.endpoint = "video" /\ req.outcome.status = 200)
        => written = FirstFrames(Min(req.nframes, FRAME_LIMIT))

\* What predict_video writes instead: the loop stops once frame_count exceeds the
\* limit, that is after FRAME_LIMIT + 1 frames; the order is the input's.
VideoWritesOneMore ==
    (req.pc = "done" /\ req.endpoint = "video" /\ req.outcome.status = 200)
        => written = FirstFrames(Min(req.nframes, FRAME_LIMIT + 1))

\* C2: of the /register calls made for one username, at most one is answered 200,
\* however the membership tests and the inserts of concurrent calls interleave.
C2_OneRegistrationWins == \A u \in Usernames : successes[u] <= 1

\* C3: the token of create_access_token(data, ttl) carries the expiry now + ttl for
\* every ttl given, and a token issued with ttl = 0 is refused as expired by
\* verify_token at any time from its issue on.
C3_ZeroTtlIsExpired ==
    (verified.made /\ verified.token = issued.token /\ issued.expires_delta.given)
        => /\ issued.token.exp
                  = ToEpochSeconds(issued.at + issued.expires_delta.ticks)
           /\ issued.expires_delta = Delta(0)
                  => verified.result = Http(401, "Token has expired! Login again.")

\* C4: verify_token yields a subject exactly when the token is signed with
\* SECRET_KEY, is not yet expired, and has a sub claim that is present and not
\* empty; otherwise it answers 401.
C4_ValidIffSignedFreshNamed ==
    verified.made =>
        LET t == verified.token
            valid == /\ t.key = SECRET_KEY
                     /\ ~Expired(t, verified.at)
                     /\ t.sub # NoSub
                     /\ t.sub # ""
        IN /\ (verified.result.status = 200) <=> valid
           /\ valid => verified.result.username = t.sub
           /\ ~valid => verified.result.status = 401

\* C5: when a video request that got its temporary input file written has ended,
\* the input file is deleted, the capture and the writer are not left open, and
\* the output file exists only if the request succeeded.
C5_NoLeakOnAnyExit ==
    (req.pc = "done" /\ req.endpoint = "video" /\ req.outcome.detail # "copy failed")
        => /\ ~input_exists
           /\ cap # "open"
           /\ out # "open"
           /\ (output_exists => req.outcome.status = 200)

\* C6: a video request whose upload cannot be opened as a frame source ends with
\* a client error and returns no output video.
C6_UnreadableIsClientError ==
    (req.pc = "done" /\ req.endpoint = "video" /\ cap # "none" /\ ~req.readable)
        => /\ req.outcome.status \in 400..499
           /\ req.outcome.detail # "FileResponse"

\* C7: an authorized prediction request whose conf is outside [0.0, 1.0] never
\* creates a temporary file nor reaches the detection model, and ends with a
\* client error.
C7_ConfOutOfRangeRejected ==
    (/\ req.pc # "idle"
     /\ ~ConfInRange(req.conf)
     /\ req.content_type # NoContentType
     /\ Authorize(req.header, now).status = 200)
        => /\ NoSideEffect
           /\ req.pc = "done" => req.outcome.status \in {400, 422}

\* C8: a /register call for a username that is in the store is answered 400 and
\* leaves the store as it was; and as long as the /register calls for a username
\* came one after another, the store holds for it the password of the first
\* (and only) successful registration.
C8_DuplicateRejectedStoreKept ==
    /\ [](\A u \in Usernames :
            ~overlap[u] =>
                /\ successes[u] <= 1
                /\ successes[u] = 1 <=> firstPw[u] # NoUser
                /\ firstPw[u] # NoUser => fake_users_db[u] = firstPw[u])
    /\ [][\A c \in Callers, u \in Usernames, p \in Passwords :
            (fake_users_db[u] # NoUser /\ RegisterCall(c, u, p))
                => /\ fake_users_db' = fake_users_db
                   /\ reg' = reg
                   /\ last'.op = "register"
                   /\ last'.status = 400]_vars

C8_Witness ==
    /\ last.op = "register"
    /\ last.status = 400
    /\ ~overlap[last.username]
    /\ firstPw[last.username] # NoUser
    /\ last.password # firstPw[last.username]
    /\ fake_users_db[last.username] = firstPw[last.username]

\* C9: a prediction request with no Authorization header, a header of another
\* scheme, or a bearer token that is expired, not signed with SECRET_KEY or
\* without subject is answered 401 by the dependency, and nothing of the handler
\* happens for it: no temporary file, no capture or writer, no detection call.
Refused(header, t) ==
    \/ header.kind # "bearer"
    \/ header.token.key # SECRET_KEY
    \/ Expired(header.token, t)
    \/ header.token.sub = NoSub

C9_HandlerOnlyAfterVerify ==
    (req.pc # "idle" /\ Refused(req.header, now))
        => /\ NoSideEffect
           /\ req.pc \in {"deps", "done"}
           /\ req.pc = "done" => req.outcome.status = 401

C9_Witness ==
    /\ req.pc = "done"
    /\ req.endpoint = "video"
    /\ req.header.kind = "bearer"
    /\ req.header.token.key = SECRET_KEY
    /\ req.header.token.sub = "admin"
    /\ Expired(req.header.token, now)
    /\ req.outcome = Http(401, "Token has expired! Login again.")

\* C10: a successful /register answers with a token whose verify_token subject is
\* the username, and the /login the caller makes next with the same credentials
\* is answered 200 with such a token too.
C10_RegisterThenLogin ==
    /\ (last.op = "register" /\ last.status = 200) => last.subject = last.username
    /\ (last.op = "login" /\ last.follows)
          => (last.status = 200 /\ last.subject = last.username)

\* The same round trip when no other /register for the username was in flight.
RegisterThenLoginUndisturbed ==
    (last.op # "none" /\ ~overlap[last.username]) => C10_RegisterThenLogin

====
